---- MODULE Spec2Model ----
(***************************************************************************)
(* postgrest-py, synchronous client: the request-executing builders of     *)
(* postgrest/_sync/request_builder.py and the session configuration of     *)
(* postgrest_py/sync_client.py.                                            *)
(*                                                                         *)
(* Python's Optional values are sets with at most one element: None is {}  *)
(* and a present value x is {x}.  Strings that the code searches are       *)
(* sequences of tokens; strings it only compares or stores are atoms.      *)
(* A header mapping is a function whose DOMAIN is the set of keys present. *)
(***************************************************************************)
EXTENDS Integers, Sequences, FiniteSets, TLC

VARIABLES
    builder,        \* kind of the live builder: "none", "select", "filter", "query"
    draft,          \* the builder's request draft: [method, headers, json]
    invocations,    \* execute() calls made on the live builder
    requests,       \* session.request() calls issued for the live builder
    call,           \* the last execute() on the live builder and how it ended
    sessionHeaders, \* PostgrestClient.session.headers
    sessionAuth,    \* PostgrestClient.session.auth
    selected,       \* the schema most recently passed to __init__ or schema()
    last            \* the last PostgrestClient call, its arguments and the state before it

vars == <<builder, draft, invocations, requests, call,
          sessionHeaders, sessionAuth, selected, last>>

builderVars == <<builder, draft, invocations, requests, call>>
clientVars == <<sessionHeaders, sessionAuth, selected, last>>

-----------------------------------------------------------------------------
(* Bounds *)

MaxCalls == 2

-----------------------------------------------------------------------------
(* Values *)

None == {}
Some(x) == {x}

\* postgrest/types.py
CountMethod == {"exact", "planned", "estimated"}
ReturnMethod == {"minimal", "representation"}
RequestMethod == {"GET", "POST", "PATCH", "PUT", "DELETE", "HEAD"}

ObjectJson == "application/vnd.pgrst.object+json"

\* "Results contain 0 rows", the text searched for at request_builder.py:75
ZeroRows == <<"Results", "contain", "0", "rows">>

\* needle in hay, Python's substring test on str
Contains(needle, hay) ==
    \E i \in 0..(Len(hay) - Len(needle)) :
        SubSeq(hay, i + 1, i + Len(needle)) = needle

\* str.lower() on the marker values the model uses
Lower(s) ==
    CASE s = "True" -> "true"
      [] s = "TRUE" -> "true"
      [] s = "False" -> "false"
      [] OTHER -> s

\* truth value of an Optional[str] given as an optional token sequence
TruthySeq(o) == o # None /\ o # Some(<<>>)

\* the `details` values an error body may carry (absent, empty, or text)
DetailsChoices ==
    { None,
      Some(<<>>),
      Some(ZeroRows),
      Some(ZeroRows \o <<",", "requires", "1", "row">>),
      Some(<<"JSON", "object", "requested", ":">> \o ZeroRows),
      Some(<<"Results", "contain", "2", "rows">>),
      Some(<<"Results", "contain">>) }

\* Response bodies: not JSON at all; a JSON array of rows; a single JSON object;
\* a JSON error object (which is not a valid success payload).
Garbage == [decodable |-> FALSE, valid |-> FALSE, payload |-> "garbage", details |-> None]
RowsBody == [decodable |-> TRUE, valid |-> TRUE, payload |-> "rows", details |-> None]
ObjectBody == [decodable |-> TRUE, valid |-> TRUE, payload |-> "object", details |-> None]
ErrorBody(d) == [decodable |-> TRUE, valid |-> FALSE, payload |-> "error", details |-> d]

Bodies == {Garbage, RowsBody, ObjectBody} \cup {ErrorBody(d) : d \in DetailsChoices}

Statuses == {199, 200, 299, 300, 406, 500}

\* total carried by the response's Content-Range header, when there is one
Totals == {None, Some(2)}

Responses == [status : Statuses, body : Bodies, total : Totals]

NoResponse == [status |-> 0, body |-> Garbage, total |-> None]

-----------------------------------------------------------------------------
(* Results of a call: a returned APIResponse or a raised exception *)

Returned(data, error, count, via) ==
    [kind |-> "returned", exc |-> "", details |-> None,
     data |-> data, error |-> error, count |-> count, via |-> via]

Raised(exc, details) ==
    [kind |-> "raised", exc |-> exc, details |-> details,
     data |-> None, error |-> None, count |-> None, via |-> ""]

NoOutcome ==
    [kind |-> "none", exc |-> "", details |-> None,
     data |-> None, error |-> None, count |-> None, via |-> ""]

-----------------------------------------------------------------------------
(* Drafts: what the entry points of SyncRequestBuilder hand to the builders *)

\* A Prefer header value is its set of directives, each <<key, value>>.
CountDirective(count) == {<<"count", m>> : m \in count}

pre_select(count) ==
    [method |-> "GET",
     headers |-> IF count = None THEN <<>> ELSE ("Prefer" :> CountDirective(count)),
     json |-> FALSE]

pre_insert(count, returning, upsert) ==
    [method |-> "POST",
     headers |-> ("Prefer" :> ({<<"return", returning>>} \cup CountDirective(count)
                     \cup (IF upsert THEN {<<"resolution", "merge-duplicates">>} ELSE {}))),
     json |-> TRUE]

pre_upsert(count, returning, ignore_duplicates) ==
    [method |-> "POST",
     headers |-> ("Prefer" :> ({<<"return", returning>>} \cup CountDirective(count)
                     \cup {<<"resolution", IF ignore_duplicates THEN "ignore-duplicates"
                                                               ELSE "merge-duplicates">>})),
     json |-> TRUE]

pre_update(count, returning) ==
    [method |-> "PATCH",
     headers |-> ("Prefer" :> ({<<"return", returning>>} \cup CountDirective(count))),
     json |-> TRUE]

pre_delete(count, returning) ==
    [method |-> "DELETE",
     headers |-> ("Prefer" :> ({<<"return", returning>>} \cup CountDirective(count))),
     json |-> FALSE]

NoDraft == [method |-> "GET", headers |-> <<>>, json |-> FALSE]

\* Optional[CountMethod] arguments
CountArgs == {None} \cup {Some(m) : m \in CountMethod}

\* Header mappings a caller may hand to SyncQueryBuilder directly.
HeaderChoices ==
    { ("Accept" :> ObjectJson) @@ ("x-maybeSingle" :> "True"),
      ("Accept" :> ObjectJson) @@ ("x-maybeSingle" :> "TRUE"),
      ("Accept" :> ObjectJson) @@ ("x-maybeSingle" :> "false"),
      ("Accept" :> "application/json") @@ ("x-maybeSingle" :> "true"),
      ("Accept" :> "application/json"),
      ("x-maybeSingle" :> "true") }

\* headers[key] = value on a header mapping
SetItem(headers, key, value) == (key :> value) @@ headers

-----------------------------------------------------------------------------
(* Execution *)

\* ok with the upper end of the band excluded
ok_exclusive(status) == 200 <= status /\ status < 299

\* request_builder.py:62, Response.ok
ok(status) == 200 <= status /\ status <= 299

\* whether a count method was requested in the draft's Prefer header
CountRequested(headers) ==
    /\ "Prefer" \in DOMAIN headers
    /\ \E d \in headers["Prefer"] : d[1] = "count"

\* APIError(r.json()) once the body is decoded: absent fields default to ""
APIError(body) ==
    Raised("APIError", IF body.details = None THEN Some(<<>>) ELSE body.details)

\* raise APIError(r.json()): r.json() raises JSONDecodeError on a body that is not JSON
raise_APIError(r) ==
    IF r.body.decodable THEN APIError(r.body) ELSE Raised("JSONDecodeError", None)

\* APIResponse.from_http_request_response(r); decodeExc is the exception it ends
\* with on a body that is not JSON
from_http_request_response(headers, r, decodeExc) ==
    IF ~r.body.decodable THEN Raised(decodeExc, None)
    ELSE IF ~r.body.valid THEN Raised("ValidationError", None)
    ELSE Returned(Some(r.body.payload), None,
                  IF CountRequested(headers) THEN r.total ELSE None, "response")

\* APIResponse.from_dict({"data": data, "error": error, "count": count})
from_dict(data, error, count) == Returned(data, error, count, "from_dict")

\* SyncQueryRequestBuilder.execute after session.request() has answered r
QueryRequestBuilder_execute(headers, r, decodeExc) ==
    IF ok(r.status)
    THEN LET res == from_http_request_response(headers, r, decodeExc) IN
         IF res.kind = "raised" /\ res.exc = "ValidationError"
         THEN raise_APIError(r)
         ELSE res
    ELSE raise_APIError(r)

\* SyncMaybeSingleRequestBuilder.execute comparing the details for equality
\* instead of searching them
MaybeSingle_execute_exact(inner) ==
    IF inner.kind = "raised" /\ inner.exc = "APIError"
    THEN IF TruthySeq(inner.details) /\ inner.details = Some(ZeroRows)
         THEN from_dict(None, None, Some(0))
         ELSE Raised("UnboundLocalError", None)
    ELSE inner

\* SyncMaybeSingleRequestBuilder.execute handing the caught error to the result
MaybeSingle_execute_error(inner) ==
    IF inner.kind = "raised" /\ inner.exc = "APIError"
    THEN IF TruthySeq(inner.details)
            /\ \E d \in inner.details : Contains(ZeroRows, d)
         THEN from_dict(None, Some("APIError"), Some(0))
         ELSE Raised("UnboundLocalError", None)
    ELSE inner

\* SyncMaybeSingleRequestBuilder.execute, given how super().execute() ended
MaybeSingleRequestBuilder_execute(inner) ==
    IF inner.kind = "raised" /\ inner.exc = "APIError"
    THEN IF TruthySeq(inner.details)
            /\ \E d \in inner.details : Contains(ZeroRows, d)
         THEN from_dict(None, None, Some(0))
         ELSE Raised("UnboundLocalError", None)
    ELSE inner

\* SyncQueryBuilder.is_single raises KeyError on headers without an Accept entry
is_single_raises(headers) == "Accept" \notin DOMAIN headers

is_single(headers) == headers["Accept"] = ObjectJson

\* is_maybe_single looking at the marker alone
is_maybe_single_marker(headers) ==
    /\ "x-maybeSingle" \in DOMAIN headers
    /\ Lower(headers["x-maybeSingle"]) = "true"

is_maybe_single(headers) ==
    LET cond == /\ "x-maybeSingle" \in DOMAIN headers
                /\ Lower(headers["x-maybeSingle"]) = "true"
    IN is_single(headers) /\ cond

NoCall ==
    [made |-> FALSE, headers |-> <<>>, sent |-> FALSE, response |-> NoResponse,
     inner |-> NoOutcome, outcome |-> NoOutcome]

\* exception types from_http_request_response may end with on a body that is not JSON
DecodeExcs == {"ValidationError", "JSONDecodeError"}

\* SyncQueryBuilder.execute
execute ==
    /\ builder # "none"
    /\ invocations < MaxCalls
    /\ invocations' = invocations + 1
    /\ IF is_single_raises(draft.headers)
       THEN /\ requests' = requests
            /\ call' = [made |-> TRUE, headers |-> draft.headers, sent |-> FALSE,
                        response |-> NoResponse, inner |-> NoOutcome,
                        outcome |-> Raised("KeyError", None)]
       ELSE \E r \in Responses, decodeExc \in DecodeExcs :
            LET inner == QueryRequestBuilder_execute(draft.headers, r, decodeExc) IN
            /\ requests' = requests + 1
            /\ call' = [made |-> TRUE, headers |-> draft.headers, sent |-> TRUE,
                        response |-> r, inner |-> inner,
                        outcome |-> IF is_maybe_single(draft.headers)
                                    THEN MaybeSingleRequestBuilder_execute(inner)
                                    ELSE inner]
    /\ UNCHANGED <<builder, draft, clientVars>>

\* a new builder starts with no execute() made on it
Fresh ==
    /\ invocations' = 0
    /\ requests' = 0
    /\ call' = NoCall
    /\ UNCHANGED clientVars

\* SyncQueryBuilder.__init__ with headers of the caller's choice
QueryBuilder_init ==
    \E method \in RequestMethod, headers \in HeaderChoices :
        /\ builder' = "query"
        /\ draft' = [method |-> method, headers |-> headers, json |-> FALSE]
        /\ Fresh

\* SyncRequestBuilder.select, building a SyncSelectRequestBuilder
select ==
    \E count \in CountArgs :
        /\ builder' = "select"
        /\ draft' = pre_select(count)
        /\ Fresh

\* SyncRequestBuilder.insert, building a SyncQueryBuilder
insert ==
    \E count \in CountArgs, returning \in ReturnMethod, ups \in BOOLEAN :
        /\ builder' = "query"
        /\ draft' = pre_insert(count, returning, ups)
        /\ Fresh

\* SyncRequestBuilder.upsert, building a SyncQueryBuilder
upsert ==
    \E count \in CountArgs, returning \in ReturnMethod, ignore_duplicates \in BOOLEAN :
        /\ builder' = "query"
        /\ draft' = pre_upsert(count, returning, ignore_duplicates)
        /\ Fresh

\* SyncRequestBuilder.update, building a SyncFilterRequestBuilder
update ==
    \E count \in CountArgs, returning \in ReturnMethod :
        /\ builder' = "filter"
        /\ draft' = pre_update(count, returning)
        /\ Fresh

\* SyncRequestBuilder.delete, building a SyncFilterRequestBuilder
delete ==
    \E count \in CountArgs, returning \in ReturnMethod :
        /\ builder' = "filter"
        /\ draft' = pre_delete(count, returning)
        /\ Fresh

\* BaseSelectRequestBuilder.single()
single ==
    /\ builder = "select"
    /\ draft' = [draft EXCEPT !.headers = SetItem(@, "Accept", ObjectJson)]
    /\ UNCHANGED <<builder, invocations, requests, call, clientVars>>

\* BaseSelectRequestBuilder.maybe_single()
maybe_single ==
    /\ builder = "select"
    /\ draft' = [draft EXCEPT !.headers =
                    SetItem(SetItem(@, "Accept", ObjectJson), "x-maybeSingle", "true")]
    /\ UNCHANGED <<builder, invocations, requests, call, clientVars>>

-----------------------------------------------------------------------------
(* PostgrestClient: the session's headers and auth *)

Schemas == {"public", "api", "private"}

\* postgrest_py/constants.py
DEFAULT_POSTGREST_CLIENT_HEADERS ==
    ("Accept" :> "application/json") @@ ("Content-Type" :> "application/json")

\* `headers` arguments of the constructor
HeadersArgs ==
    { DEFAULT_POSTGREST_CLIENT_HEADERS,
      ("Accept-Profile" :> "stale") @@ DEFAULT_POSTGREST_CLIENT_HEADERS,
      ("Content-Profile" :> "stale") @@ ("X-Client-Info" :> "app") }

\* Optional[str] arguments of auth(): absent, empty, or a text
Tokens == {None, Some(""), Some("t1"), Some("t2")}
Usernames == {None, Some(""), Some("alice")}
Passwords == {"", "pw"}

\* truth value of an Optional[str] given as an optional atom
Truthy(o) == o # None /\ o # Some("")

\* f"Bearer {token}"
Bearer(token) == <<"Bearer", token>>

\* httpx.BasicAuth(username, password)
BasicAuth(username, password) == <<username, password>>

\* {**headers, "Accept-Profile": schema, "Content-Profile": schema}
init_headers(schema, headers) ==
    ("Accept-Profile" :> schema) @@ ("Content-Profile" :> schema) @@ headers

\* schema() switching the Accept-Profile header alone
schema_headers_accept(headers, schema) == ("Accept-Profile" :> schema) @@ headers

\* session.headers.update({"Accept-Profile": schema, "Content-Profile": schema})
schema_headers(headers, schema) ==
    ("Accept-Profile" :> schema) @@ ("Content-Profile" :> schema) @@ headers

LastCall(op, token, username, password, raised) ==
    [op |-> op, token |-> token, username |-> username, password |-> password,
     raised |-> raised, preHeaders |-> sessionHeaders, preAuth |-> sessionAuth]

\* PostgrestClient.__init__
PostgrestClient_init(schema, headers) ==
    /\ sessionHeaders = init_headers(schema, headers)
    /\ sessionAuth = None
    /\ selected = schema
    /\ last = [op |-> "init", token |-> None, username |-> None, password |-> "",
               raised |-> "", preHeaders |-> <<>>, preAuth |-> None]

\* auth() testing the username before the token
auth_username_first(token, username, password) ==
    /\ IF Truthy(username)
       THEN /\ sessionAuth' = Some(BasicAuth(CHOOSE u \in username : TRUE, password))
            /\ sessionHeaders' = sessionHeaders
            /\ last' = LastCall("auth", token, username, password, "")
       ELSE IF Truthy(token)
       THEN /\ sessionHeaders' =
                  SetItem(sessionHeaders, "Authorization",
                          Bearer(CHOOSE t \in token : TRUE))
            /\ sessionAuth' = sessionAuth
            /\ last' = LastCall("auth", token, username, password, "")
       ELSE /\ UNCHANGED <<sessionHeaders, sessionAuth>>
            /\ last' = LastCall("auth", token, username, password, "ValueError")
    /\ UNCHANGED <<selected, builderVars>>

\* PostgrestClient.auth
auth(token, username, password) ==
    /\ IF Truthy(token)
       THEN /\ sessionHeaders' =
                  SetItem(sessionHeaders, "Authorization",
                          Bearer(CHOOSE t \in token : TRUE))
            /\ sessionAuth' = sessionAuth
            /\ last' = LastCall("auth", token, username, password, "")
       ELSE IF Truthy(username)
       THEN /\ sessionAuth' = Some(BasicAuth(CHOOSE u \in username : TRUE, password))
            /\ sessionHeaders' = sessionHeaders
            /\ last' = LastCall("auth", token, username, password, "")
       ELSE /\ UNCHANGED <<sessionHeaders, sessionAuth>>
            /\ last' = LastCall("auth", token, username, password, "ValueError")
    /\ UNCHANGED <<selected, builderVars>>

\* PostgrestClient.schema
schema(s) ==
    /\ sessionHeaders' = schema_headers(sessionHeaders, s)
    /\ selected' = s
    /\ last' = LastCall("schema", None, None, "", "")
    /\ UNCHANGED <<sessionAuth, builderVars>>

-----------------------------------------------------------------------------
(* Specifications *)

NoBuilder ==
    /\ builder = "none"
    /\ draft = NoDraft
    /\ invocations = 0
    /\ requests = 0
    /\ call = NoCall

\* a client built with the defaults, from whose session builders are made and executed
Init ==
    /\ NoBuilder
    /\ PostgrestClient_init("public", DEFAULT_POSTGREST_CLIENT_HEADERS)

Next ==
    \/ select
    \/ insert
    \/ upsert
    \/ update
    \/ delete
    \/ QueryBuilder_init
    \/ single
    \/ maybe_single
    \/ execute

Spec == Init /\ [][Next]_vars

\* a client built with any schema and headers, then configured
ClientInit ==
    /\ NoBuilder
    /\ \E s \in Schemas, headers \in HeadersArgs : PostgrestClient_init(s, headers)

ClientNext ==
    \/ \E token \in Tokens, username \in Usernames, password \in Passwords :
          auth(token, username, password)
    \/ \E s \in Schemas : schema(s)

ClientSpec == ClientInit /\ [][ClientNext]_vars

-----------------------------------------------------------------------------
(* Properties *)

\* the draft of the last execute() was in maybe-single mode
MaybeSingleMode ==
    /\ "Accept" \in DOMAIN call.headers
    /\ call.headers["Accept"] = "application/vnd.pgrst.object+json"
    /\ "x-maybeSingle" \in DOMAIN call.headers
    /\ call.headers["x-maybeSingle"] \in {"true", "True", "TRUE"}

\* the last execute() received a response with a status outside 200..299
Non2xx == call.sent /\ call.response.status \notin 200..299

\* the response's error body has a details field containing "Results contain 0 rows"
ZeroRowsDetails ==
    /\ call.response.body.decodable
    /\ \E d \in call.response.body.details :
          \E i \in 1..(Len(d) - 3) :
              SubSeq(d, i, i + 3) = <<"Results", "contain", "0", "rows">>

\* the details an APIError built from the response body carries
BodyDetails ==
    IF call.response.body.details = {} THEN {<<>>} ELSE call.response.body.details

\* C1: in maybe-single mode a non-2xx response whose details contain
\* "Results contain 0 rows" makes execute() return a successful APIResponse with
\* data = None and count = 0, raising nothing.
C1_ZeroRowsSuppressed ==
    (MaybeSingleMode /\ Non2xx /\ ZeroRowsDetails)
        => /\ call.outcome.kind = "returned"
           /\ call.outcome.data = {}
           /\ call.outcome.count = {0}

C1_Witness ==
    /\ MaybeSingleMode /\ Non2xx /\ ZeroRowsDetails
    /\ call.response.status = 406
    /\ call.response.body.details # {<<"Results", "contain", "0", "rows">>}
    /\ call.outcome.kind = "returned"

\* C2: for every draft, a non-2xx response whose error details are absent or
\* do not contain "Results contain 0 rows" makes execute() raise that APIError.
C2_OtherErrorsPropagate ==
    (Non2xx /\ call.response.body.decodable /\ ~ZeroRowsDetails)
        => /\ call.outcome.kind = "raised"
           /\ call.outcome.exc = "APIError"
           /\ call.outcome.details = BodyDetails

\* C3: a response whose body is not JSON or fails response validation makes
\* SyncQueryRequestBuilder.execute() raise APIError, whatever the status.
C3_DecodingFailureIsAPIError ==
    (call.sent /\ (~call.response.body.decodable \/ ~call.response.body.valid))
        => /\ call.inner.kind = "raised"
           /\ call.inner.exc = "APIError"

\* C4: after n invocations of execute() on a builder exactly n requests have
\* been issued through the session.
C4_OneRequestPerExecute == requests = invocations

\* C5: a response with a status in 200..299 takes the success path (a valid body
\* is returned as an APIResponse built from it) and any other status takes the
\* error path (a decoded body is raised as an APIError built from it).
C5_ClassifiedByStatus ==
    call.sent =>
        /\ (call.response.status \in 200..299 /\ call.response.body.valid)
              => /\ call.inner.kind = "returned"
                 /\ call.inner.data = {call.response.body.payload}
        /\ (call.response.status \notin 200..299 /\ call.response.body.decodable)
              => /\ call.inner.kind = "raised"
                 /\ call.inner.exc = "APIError"
                 /\ call.inner.details = BodyDetails

C5_Witness ==
    /\ call.sent
    /\ call.response.status = 299
    /\ call.response.body.valid
    /\ call.outcome.kind = "returned"

\* C6: outside maybe-single mode the non-2xx response with details containing
\* "Results contain 0 rows" makes execute() raise APIError with those details.
C6_SuppressionOnlyInMaybeSingle ==
    (~MaybeSingleMode /\ Non2xx /\ ZeroRowsDetails)
        => /\ call.outcome.kind = "raised"
           /\ call.outcome.exc = "APIError"
           /\ call.outcome.details = call.response.body.details

C6_Witness ==
    /\ Non2xx /\ ZeroRowsDetails
    /\ "Accept" \in DOMAIN call.headers
    /\ call.headers["Accept"] = "application/vnd.pgrst.object+json"
    /\ "x-maybeSingle" \notin DOMAIN call.headers
    /\ call.outcome.exc = "APIError"

\* C7: every APIResponse execute() returns has exactly one of {data, error}
\* populated.
C7_ExactlyOnePopulated ==
    call.outcome.kind = "returned"
        => (call.outcome.data # {}) # (call.outcome.error # {})

\* C7, amended: every APIResponse execute() returns has no error populated; it
\* carries the decoded body as data, except the one synthesized by the zero-rows
\* suppression, which has data = None and so neither populated.
C7_ErrorNeverPopulated ==
    call.outcome.kind = "returned"
        => /\ call.outcome.error = {}
           /\ IF MaybeSingleMode /\ ~(call.response.status \in 200..299 /\ call.response.body.valid)
              THEN call.outcome.data = {}
              ELSE call.outcome.data = {call.response.body.payload}

C7_Witness ==
    /\ call.outcome.kind = "returned"
    /\ MaybeSingleMode /\ Non2xx /\ ZeroRowsDetails
    /\ call.outcome.data = {}
    /\ call.outcome.error = {}

\* C9: execute() issues the request whatever the draft's headers are; a draft
\* without an Accept entry does not make it fail before the transport.
C9_RequestAlwaysIssued == call.made => call.sent

\* an auth() argument was provided: present and not empty
Provided(arg) == arg # {} /\ arg # {""}

\* C8: auth() with a token sets Authorization to "Bearer <token>" and leaves basic
\* auth alone, also when a username is given; with a username only it sets basic
\* auth and leaves the headers alone; with neither it raises ValueError and
\* changes nothing.
C8_AuthEffect ==
    last.op = "auth" =>
        IF Provided(last.token)
        THEN /\ last.raised = ""
             /\ "Authorization" \in DOMAIN sessionHeaders
             /\ \A t \in last.token : sessionHeaders["Authorization"] = <<"Bearer", t>>
             /\ \A k \in (DOMAIN sessionHeaders \cup DOMAIN last.preHeaders) \ {"Authorization"} :
                   /\ k \in DOMAIN sessionHeaders
                   /\ k \in DOMAIN last.preHeaders
                   /\ sessionHeaders[k] = last.preHeaders[k]
             /\ sessionAuth = last.preAuth
        ELSE IF Provided(last.username)
        THEN /\ last.raised = ""
             /\ \A u \in last.username : sessionAuth = {<<u, last.password>>}
             /\ sessionHeaders = last.preHeaders
        ELSE /\ last.raised = "ValueError"
             /\ sessionHeaders = last.preHeaders
             /\ sessionAuth = last.preAuth

C8_Witness ==
    /\ last.op = "auth"
    /\ last.token = {"t2"}
    /\ last.username = {"alice"}
    /\ "Authorization" \in DOMAIN last.preHeaders
    /\ sessionHeaders["Authorization"] = <<"Bearer", "t2">>
    /\ sessionAuth = {}

====
